---- MODULE Spec2Model ----
(***************************************************************************)
(* Loan calculator (src/app/index.tsx): the form state of the Index        *)
(* component, its event handlers, the selectedMonth effect, the schedule   *)
(* generator, the startup load of the stored interest rate, and the rate   *)
(* modal with its saves to the store.                                      *)
(*                                                                         *)
(* Three specifications share the actions: Spec (the form and the load,    *)
(* the store answering every call), SpecSchedule (the schedule over every  *)
(* term) and SpecStore (the load, the modal and the saves, the store       *)
(* answering or failing each call, over successive sessions).              *)
(*                                                                         *)
(* Numbers.  The source computes with IEEE doubles; the model computes     *)
(* with exact decimals:                                                    *)
(*   - loanAmount is held in hundredths (1000.00 is 100000),               *)
(*   - interestRatePerMonth is held in hundredths of a percent (10% is     *)
(*     1000, 0.1% is 10),                                                  *)
(*   - months is a plain integer,                                          *)
(*   - the amounts of a schedule row are signed decimals in millionths,    *)
(*     a record [neg, mag] whose magnitude is five base-10000 limbs,       *)
(*     least significant first (TLC integers are 32 bits wide),            *)
(*   - monthlyPayment, a quotient, is the exact fraction [num, den].       *)
(* An optional value (number | undefined, number | null) is <<>> when      *)
(* absent and <<v>> when present.  Text is a sequence of one-character     *)
(* strings.                                                                *)
(***************************************************************************)
EXTENDS Integers, Sequences, FiniteSets, TLC

VARIABLES
    loanAmount,            \* watch("loanAmount")            : <<>> or <<hundredths>>
    months,                \* watch("months")                : <<>> or <<integer>>
    interestRatePerMonth,  \* watch("interestRatePerMonth")  : <<>> or <<hundredths of %>>
    selectedMonth,         \* useState selectedMonth         : <<>> (null) or <<integer>>
    effectPending,         \* the selectedMonth effect is scheduled (its deps changed)
    storage,               \* AsyncStorage[CUSTOM_INTEREST_RATE_KEY] : <<>> or <<text>>
    loadPc,                \* position of loadCustomInterestRate: awaiting "getItem",
                           \* awaiting "removeItem", "done", or "caught" (its catch ran)
    storedRate,            \* its local storedRate while it awaits removeItem
    showInterestRateModal, \* useState showInterestRateModal
    modalInterestRate,     \* useState modalInterestRate     : <<>> or <<hundredths of %>>
    saves,                 \* the calls of saveCustomInterestRate that have not
                           \* finished, oldest first: [rate, state of the promise
                           \* of setItem: "pending", "fulfilled" or "rejected"]
    alerts                 \* the messages Alert.alert has been called with

vars == <<loanAmount, months, interestRatePerMonth, selectedMonth,
          effectPending, storage, loadPc, storedRate,
          showInterestRateModal, modalInterestRate, saves, alerts>>

\* The state of the rate modal and of the saves it started.
modalVars == <<showInterestRateModal, modalInterestRate, saves, alerts>>

undefined == <<>>
null == << >>
Some(v) == <<v>>

----------------------------------------------------------------------------
(* Program constants, in the model's units.                                *)

MinLoanAmount == 100
MaxLoanAmount == 100000000
MinMonths == 1
MaxMonths == 360
MinInterestRate == 10
MaxInterestRate == 10000
DefaultMonths == 1
DefaultInterestRate == 1000
MonthsPerYear == 12

----------------------------------------------------------------------------
(* Text to number: parseFloat and parseInt(text, 10).                      *)

Digits == {"0", "1", "2", "3", "4", "5", "6", "7", "8", "9"}

DigitVal(c) ==
    CASE c = "0" -> 0 [] c = "1" -> 1 [] c = "2" -> 2 [] c = "3" -> 3
      [] c = "4" -> 4 [] c = "5" -> 5 [] c = "6" -> 6 [] c = "7" -> 7
      [] c = "8" -> 8 [] c = "9" -> 9

NaN == [nan |-> TRUE, val |-> 0]
Num(v) == [nan |-> FALSE, val |-> v]
isNaN(x) == x.nan

RECURSIVE SkipWhitespace(_)
SkipWhitespace(s) ==
    IF s # <<>> /\ Head(s) = " " THEN SkipWhitespace(Tail(s)) ELSE s

RECURSIVE TakeDigits(_)
TakeDigits(s) ==
    IF s # <<>> /\ Head(s) \in Digits
    THEN <<Head(s)>> \o TakeDigits(Tail(s))
    ELSE <<>>

RECURSIVE DigitsValue(_, _)
DigitsValue(ds, acc) ==
    IF ds = <<>> THEN acc ELSE DigitsValue(Tail(ds), acc * 10 + DigitVal(Head(ds)))

HasSign(s) == s # <<>> /\ Head(s) \in {"-", "+"}
IsNegative(s) == s # <<>> /\ Head(s) = "-"

\* parseInt(text, 10): leading whitespace, an optional sign, then the longest
\* run of digits; NaN when there is no digit.
parseInt(text) ==
    LET s == SkipWhitespace(text)
        body == IF HasSign(s) THEN Tail(s) ELSE s
        ds == TakeDigits(body)
        v == DigitsValue(ds, 0)
    IN  IF ds = <<>> THEN NaN
        ELSE Num(IF IsNegative(s) THEN 0 - v ELSE v)

\* parseFloat(text) in hundredths: leading whitespace, an optional sign, digits,
\* an optional "." and digits; NaN when there is no digit on either side.
\* Fraction digits after the second are dropped (the texts of the model have at
\* most two); exponents and "Infinity" are not modelled.
parseFloat(text) ==
    LET s == SkipWhitespace(text)
        body == IF HasSign(s) THEN Tail(s) ELSE s
        ip == TakeDigits(body)
        rest == SubSeq(body, Len(ip) + 1, Len(body))
        fp == IF rest # <<>> /\ Head(rest) = "." THEN TakeDigits(Tail(rest)) ELSE <<>>
        f1 == IF Len(fp) >= 1 THEN DigitVal(fp[1]) ELSE 0
        f2 == IF Len(fp) >= 2 THEN DigitVal(fp[2]) ELSE 0
        v == DigitsValue(ip, 0) * 100 + f1 * 10 + f2
    IN  IF ip = <<>> /\ fp = <<>> THEN NaN
        ELSE Num(IF IsNegative(s) THEN 0 - v ELSE v)

\* The decimal digits of a natural number.
DigitChar(d) == <<"0", "1", "2", "3", "4", "5", "6", "7", "8", "9">>[d + 1]

RECURSIVE NatDigits(_)
NatDigits(n) ==
    IF n < 10 THEN <<DigitChar(n)>>
    ELSE NatDigits(n \div 10) \o <<DigitChar(n % 10)>>

\* rate.toString() of a number held in hundredths: a "-" when negative, the
\* integer part, and the fraction without trailing zeros ("12.5", "10",
\* "0.05").
toString(v) ==
    LET a == IF v < 0 THEN 0 - v ELSE v
        f1 == (a % 100) \div 10
        f2 == a % 10
        fraction == IF a % 100 = 0 THEN <<>>
                    ELSE IF f2 = 0 THEN <<".", DigitChar(f1)>>
                    ELSE <<".", DigitChar(f1), DigitChar(f2)>>
    IN  (IF v < 0 THEN <<"-">> ELSE <<>>) \o NatDigits(a \div 100) \o fraction

----------------------------------------------------------------------------
(* Exact decimals in millionths.                                           *)

Abs(n) == IF n < 0 THEN 0 - n ELSE n

MagZero == <<0, 0, 0, 0, 0>>

MagOfNat(n) == <<n % 10000, (n \div 10000) % 10000, n \div 100000000, 0, 0>>

\* m * 10000
MagShift(m) == <<0, m[1], m[2], m[3], m[4]>>

\* m * k, for 0 <= k <= 200000
MagMulSmall(m, k) ==
    LET p1 == m[1] * k
        p2 == m[2] * k + (p1 \div 10000)
        p3 == m[3] * k + (p2 \div 10000)
        p4 == m[4] * k + (p3 \div 10000)
        p5 == m[5] * k + (p4 \div 10000)
    IN  <<p1 % 10000, p2 % 10000, p3 % 10000, p4 % 10000, p5>>

MagAdd(a, b) ==
    LET s1 == a[1] + b[1]
        s2 == a[2] + b[2] + (s1 \div 10000)
        s3 == a[3] + b[3] + (s2 \div 10000)
        s4 == a[4] + b[4] + (s3 \div 10000)
        s5 == a[5] + b[5] + (s4 \div 10000)
    IN  <<s1 % 10000, s2 % 10000, s3 % 10000, s4 % 10000, s5>>

MagLess(a, b) ==
    \E i \in 1..5 : a[i] < b[i] /\ \A j \in (i + 1)..5 : a[j] = b[j]

\* a - b, for a >= b (\div and % round towards minus infinity)
MagSub(a, b) ==
    LET d1 == a[1] - b[1]
        d2 == a[2] - b[2] + (d1 \div 10000)
        d3 == a[3] - b[3] + (d2 \div 10000)
        d4 == a[4] - b[4] + (d3 \div 10000)
        d5 == a[5] - b[5] + (d4 \div 10000)
    IN  <<d1 % 10000, d2 % 10000, d3 % 10000, d4 % 10000, d5>>

Dec(neg, mag) == [neg |-> neg /\ mag # MagZero, mag |-> mag]

DecZero == Dec(FALSE, MagZero)

\* a number held in hundredths, as a decimal in millionths
DecOfHundredths(v) == Dec(v < 0, MagShift(MagOfNat(Abs(v))))

DecAdd(x, y) ==
    IF x.neg = y.neg THEN Dec(x.neg, MagAdd(x.mag, y.mag))
    ELSE IF MagLess(x.mag, y.mag) THEN Dec(y.neg, MagSub(y.mag, x.mag))
    ELSE Dec(x.neg, MagSub(x.mag, y.mag))

----------------------------------------------------------------------------
(* The schedule.                                                           *)

\* loan * (rate / 100) * numMonths: hundredths * hundredths of a percent * n
\* is the product in millionths.
\* (mutant) the elapsed months are left out of the product
calculateInterestFlat(loan, rate, numMonths) ==
    IF loan = undefined \/ rate = undefined \/ numMonths = undefined
    THEN DecZero
    ELSE Dec((loan[1] < 0) # (rate[1] < 0),
             MagMulSmall(MagOfNat(Abs(loan[1])), Abs(rate[1])))

calculateInterest(loan, rate, numMonths) ==
    IF loan = undefined \/ rate = undefined \/ numMonths = undefined
    THEN DecZero
    ELSE Dec((loan[1] < 0) # (rate[1] < 0),
             MagMulSmall(MagMulSmall(MagOfNat(Abs(loan[1])), Abs(rate[1])),
                         numMonths[1]))

\* Math.ceil(m / 12) of an integer m
CeilDiv(m, d) == (m + d - 1) \div d

Min(a, b) == IF a < b THEN a ELSE b
Max(a, b) == IF a > b THEN a ELSE b

\* (mutant) Math.floor(m / 12) + 1 years instead of Math.ceil(m / 12)
actualMonthsToShowFloor(m) ==
    Min((m \div MonthsPerYear + 1) * MonthsPerYear, MaxMonths)

actualMonthsToShow(m) == Min(CeilDiv(m, MonthsPerYear) * MonthsPerYear, MaxMonths)

TableRow(loan, rate, i) ==
    LET interest == calculateInterest(loan, rate, Some(i))
        totalAmount == DecAdd(DecOfHundredths(loan[1]), interest)
        monthlyPayment == IF i > 0 THEN [num |-> totalAmount, den |-> i]
                                   ELSE [num |-> totalAmount, den |-> 1]
    IN  [month |-> i,
         interestAmount |-> interest,
         totalAmount |-> totalAmount,
         monthlyPayment |-> monthlyPayment]

\* The guard of the loop that fills data.
scheduleCondition(loan, rate, m) ==
    loan # undefined /\ rate # undefined /\ m # undefined /\ m[1] >= 1

\* data.length: the number of rows the loop pushes.
tableLength(loan, rate, m) ==
    IF scheduleCondition(loan, rate, m) THEN actualMonthsToShow(m[1]) ELSE 0

generateTableData(loan, rate, m) ==
    [i \in 1..tableLength(loan, rate, m) |-> TableRow(loan, rate, i)]

tableData == generateTableData(loanAmount, interestRatePerMonth, months)

tableDataLength == tableLength(loanAmount, interestRatePerMonth, months)

\* tableData.find((item) => item.month === selectedMonth): the first row whose
\* month is sel; <<>> when there is none.
FindMonth(table, length, sel) ==
    LET hits == {i \in 1..length : table[i].month = sel}
    IN  IF hits = {} THEN <<>>
        ELSE Some(table[CHOOSE i \in hits : \A j \in hits : i <= j])

\* (mutant) the selection is ignored: always the first row
getSelectedMonthSummaryFirst(sel, table, length) ==
    IF length > 0 THEN Some(table[1]) ELSE null

\* (mutant) no fallback to the first row without a selection
getSelectedMonthSummaryNoFallback(sel, table, length) ==
    IF sel = null THEN null ELSE FindMonth(table, length, sel[1])

getSelectedMonthSummary(sel, table, length) ==
    IF sel = null
    THEN IF length > 0 THEN Some(table[1]) ELSE null
    ELSE FindMonth(table, length, sel[1])

summaryData == getSelectedMonthSummary(selectedMonth, tableData, tableDataLength)

----------------------------------------------------------------------------
(* Validation: loanFormSchema.  Every field is optional; a present value   *)
(* must lie between its min and its max, both inclusive.                   *)

loanAmountValid(v) == v = undefined \/ (v[1] >= MinLoanAmount /\ v[1] <= MaxLoanAmount)
monthsValid(v) == v = undefined \/ (v[1] >= MinMonths /\ v[1] <= MaxMonths)
interestRateValid(v) == v = undefined \/ (v[1] >= MinInterestRate /\ v[1] <= MaxInterestRate)

----------------------------------------------------------------------------
(* Inputs of the model: the texts a user types and the preference found    *)
(* in the store at startup.                                                *)

LoanTexts ==
    { <<>>,
      <<"a", "b", "c">>,
      <<"0">>,
      <<"0", ".", "5">>,
      <<"1", "0", "0", "0">>,
      <<"1", "0", "0", "0", "0", "0", "0", ".", "0", "1">> }

MonthsTexts ==
    { <<>>,
      <<"a", "b", "c">>,
      <<"-", "3">>,
      <<"0">>,
      <<"1">>,
      <<"1", "2">>,
      <<"1", "2", ".", "7">>,
      <<"1", "3">>,
      <<"3", "4", "9">>,
      <<"3", "6", "0">>,
      <<"3", "6", "1">> }

StoredAtStartup ==
    { <<>>,
      Some(<<"1", "2", ".", "5">>),
      Some(<<"a", "b", "c">>) }

\* The texts typed into the rate modal.
ModalTexts ==
    { <<>>,
      <<"a", "b", "c">>,
      <<"1", "2", ".", "5">>,
      <<"2", "0", "0">> }

\* The preference a session can find in the store: nothing, an accepted
\* rate, text that is no number, and numbers outside [0.1, 100].
StoredPreferences ==
    StoredAtStartup \cup { Some(<<"2", "0", "0">>), Some(<<"0", ".", "0", "5">>) }

\* saveCustomInterestRate calls that can await setItem at one time.
MaxPendingSaves == 2

----------------------------------------------------------------------------
(* The component.                                                          *)

Init ==
    /\ loanAmount = undefined
    /\ months = Some(DefaultMonths)
    /\ interestRatePerMonth = Some(DefaultInterestRate)
    /\ selectedMonth = null
    /\ effectPending = TRUE
    /\ storage \in StoredAtStartup
    /\ loadPc = "getItem"
    /\ storedRate = null
    /\ showInterestRateModal = FALSE
    /\ modalInterestRate = undefined
    /\ saves = <<>>
    /\ alerts = {}

\* The selectedMonth effect runs after a render in which one of its
\* dependencies [months, loanAmount, interestRatePerMonth] changed.
DepsChanged ==
    <<months', loanAmount', interestRatePerMonth'>>
        # <<months, loanAmount, interestRatePerMonth>>

\* The event handlers run between renders, after the scheduled effects.
Idle == ~effectPending

\* months || 0
OrZero(v) == IF v = undefined \/ v[1] = 0 THEN 0 ELSE v[1]

\* (mutant) an unparseable text is stored as 0
handleLoanAmountChangeZero(text) ==
    /\ Idle
    /\ LET num == parseFloat(text)
       IN  loanAmount' = IF isNaN(num) THEN Some(0) ELSE Some(num.val)
    /\ UNCHANGED <<months, interestRatePerMonth, selectedMonth, storage, loadPc, storedRate, modalVars>>
    /\ effectPending' = DepsChanged

handleLoanAmountChange(text) ==
    /\ Idle
    /\ LET num == parseFloat(text)
       IN  loanAmount' = IF isNaN(num) THEN undefined ELSE Some(num.val)
    /\ UNCHANGED <<months, interestRatePerMonth, selectedMonth, storage, loadPc, storedRate, modalVars>>
    /\ effectPending' = DepsChanged

\* The loanAmount Controller's onBlur is the form library's field.onBlur:
\* with mode "onChange" it neither validates nor changes a value.
loanAmountOnBlur ==
    /\ Idle
    /\ UNCHANGED vars

handleMonthsDecrement ==
    /\ Idle
    /\ LET newMonths == Max(MinMonths, OrZero(months) - 1)
       IN  months' = Some(newMonths)
    /\ UNCHANGED <<loanAmount, interestRatePerMonth, selectedMonth, storage, loadPc, storedRate, modalVars>>
    /\ effectPending' = DepsChanged

handleMonthsIncrement ==
    /\ Idle
    /\ LET newMonths == Min(MaxMonths, OrZero(months) + 1)
       IN  months' = Some(newMonths)
    /\ UNCHANGED <<loanAmount, interestRatePerMonth, selectedMonth, storage, loadPc, storedRate, modalVars>>
    /\ effectPending' = DepsChanged

handleMonthsTextChange(text) ==
    /\ Idle
    /\ LET num == parseInt(text)
       IN  months' = IF isNaN(num) THEN undefined ELSE Some(num.val)
    /\ UNCHANGED <<loanAmount, interestRatePerMonth, selectedMonth, storage, loadPc, storedRate, modalVars>>
    /\ effectPending' = DepsChanged

\* (mutant) a value above 360 is snapped to 1 like a value below 1
handleMonthsBlurSnapLow ==
    /\ Idle
    /\ LET currentMonths == months
       IN  months' = IF currentMonths = undefined \/ currentMonths[1] < MinMonths
                     THEN Some(MinMonths)
                     ELSE IF currentMonths[1] > MaxMonths THEN Some(MinMonths)
                     ELSE months
    /\ UNCHANGED <<loanAmount, interestRatePerMonth, selectedMonth, storage, loadPc, storedRate, modalVars>>
    /\ effectPending' = DepsChanged

handleMonthsBlur ==
    /\ Idle
    /\ LET currentMonths == months
       IN  months' = IF currentMonths = undefined \/ currentMonths[1] < MinMonths
                     THEN Some(MinMonths)
                     ELSE IF currentMonths[1] > MaxMonths THEN Some(MaxMonths)
                     ELSE months
    /\ UNCHANGED <<loanAmount, interestRatePerMonth, selectedMonth, storage, loadPc, storedRate, modalVars>>
    /\ effectPending' = DepsChanged

\* (mutant) the months field is not overwritten
handleRowClickNoSetValue(month) ==
    /\ Idle
    /\ selectedMonth' = Some(month)
    /\ UNCHANGED <<months, loanAmount, interestRatePerMonth, storage, loadPc, storedRate, modalVars>>
    /\ effectPending' = DepsChanged

handleRowClick(month) ==
    /\ Idle
    /\ selectedMonth' = Some(month)
    /\ months' = Some(month)
    /\ UNCHANGED <<loanAmount, interestRatePerMonth, storage, loadPc, storedRate, modalVars>>
    /\ effectPending' = DepsChanged

\* (mutant) only a term that passes validation is selected
selectedMonthEffectValueValidOnly(m) ==
    IF m # undefined /\ monthsValid(m) THEN m ELSE null

\* The body of the effect: what setSelectedMonth is called with.
selectedMonthEffectValue(m) == IF m # undefined THEN m ELSE null

selectedMonthEffect ==
    /\ effectPending
    /\ selectedMonth' = selectedMonthEffectValue(months)
    /\ effectPending' = FALSE
    /\ UNCHANGED <<loanAmount, months, interestRatePerMonth, storage, loadPc, storedRate, modalVars>>

\* (mutant) every stored number is accepted, whatever its size
loadGetItemResolvedNoRange ==
    /\ loadPc = "getItem"
    /\ LET read == storage
           parsedRate == parseFloat(read[1])
       IN  IF read = null
           THEN /\ loadPc' = "done"
                /\ UNCHANGED <<interestRatePerMonth, storedRate>>
           ELSE IF ~isNaN(parsedRate)
           THEN /\ interestRatePerMonth' = Some(parsedRate.val)
                /\ loadPc' = "done"
                /\ UNCHANGED storedRate
           ELSE /\ loadPc' = "removeItem"
                /\ storedRate' = read
                /\ UNCHANGED interestRatePerMonth
    /\ UNCHANGED <<loanAmount, months, selectedMonth, storage, modalVars>>
    /\ effectPending' = (effectPending \/ DepsChanged)

\* loadCustomInterestRate up to its first await: getItem resolves with the
\* stored text or null.  The store applies a call at the moment the call
\* resolves.
loadGetItemResolved ==
    /\ loadPc = "getItem"
    /\ LET read == storage
           parsedRate == parseFloat(read[1])
       IN  IF read = null
           THEN /\ loadPc' = "done"
                /\ UNCHANGED <<interestRatePerMonth, storedRate>>
           ELSE IF ~isNaN(parsedRate) /\ parsedRate.val >= MinInterestRate
                                      /\ parsedRate.val <= MaxInterestRate
           THEN /\ interestRatePerMonth' = Some(parsedRate.val)
                /\ loadPc' = "done"
                /\ UNCHANGED storedRate
           ELSE /\ loadPc' = "removeItem"
                /\ storedRate' = read
                /\ UNCHANGED interestRatePerMonth
    /\ UNCHANGED <<loanAmount, months, selectedMonth, storage, modalVars>>
    /\ effectPending' = (effectPending \/ DepsChanged)

\* ... and after its second await: removeItem resolves.
loadRemoveItemResolved ==
    /\ loadPc = "removeItem"
    /\ storage' = null
    /\ interestRatePerMonth' = Some(DefaultInterestRate)
    /\ loadPc' = "done"
    /\ storedRate' = null
    /\ UNCHANGED <<loanAmount, months, selectedMonth, modalVars>>
    /\ effectPending' = (effectPending \/ DepsChanged)

\* getItem rejects: the catch of loadCustomInterestRate reports it.
loadGetItemRejected ==
    /\ loadPc = "getItem"
    /\ loadPc' = "caught"
    /\ alerts' = alerts \cup {"Could not load saved interest rate."}
    /\ UNCHANGED <<loanAmount, months, interestRatePerMonth, selectedMonth,
                   effectPending, storage, storedRate,
                   showInterestRateModal, modalInterestRate, saves>>

\* removeItem rejects: the setValue after it is skipped, the catch reports.
loadRemoveItemRejected ==
    /\ loadPc = "removeItem"
    /\ loadPc' = "caught"
    /\ storedRate' = null
    /\ alerts' = alerts \cup {"Could not load saved interest rate."}
    /\ UNCHANGED <<loanAmount, months, interestRatePerMonth, selectedMonth,
                   effectPending, storage,
                   showInterestRateModal, modalInterestRate, saves>>

\* The "Edit Rate" button; the open modal covers it.
openInterestRateModal ==
    /\ Idle
    /\ ~showInterestRateModal
    /\ showInterestRateModal' = TRUE
    /\ UNCHANGED <<loanAmount, months, interestRatePerMonth, selectedMonth,
                   effectPending, storage, loadPc, storedRate,
                   modalInterestRate, saves, alerts>>

handleModalInterestRateTextChange(text) ==
    /\ Idle
    /\ showInterestRateModal
    /\ LET num == parseFloat(text)
       IN  modalInterestRate' = IF isNaN(num) THEN undefined ELSE Some(num.val)
    /\ UNCHANGED <<loanAmount, months, interestRatePerMonth, selectedMonth,
                   effectPending, storage, loadPc, storedRate,
                   showInterestRateModal, saves, alerts>>

\* The Save button: saveCustomInterestRate(modalInterestRate) runs up to its
\* await of setItem.  modalInterestRate is never NaN (the text handler and
\* handleCloseInterestRateModal store undefined or a number).
handleSaveInterestRate ==
    /\ Idle
    /\ showInterestRateModal
    /\ IF modalInterestRate # undefined
       THEN /\ Len(saves) < MaxPendingSaves
            /\ saves' = Append(saves, [rate |-> modalInterestRate[1], state |-> "pending"])
            /\ UNCHANGED alerts
       ELSE /\ alerts' = alerts \cup {"Please enter a valid number for interest rate."}
            /\ UNCHANGED saves
    /\ UNCHANGED <<loanAmount, months, interestRatePerMonth, selectedMonth,
                   effectPending, storage, loadPc, storedRate,
                   showInterestRateModal, modalInterestRate>>

\* The sequence without its i-th element.
RemoveAt(q, i) == SubSeq(q, 1, i - 1) \o SubSeq(q, i + 1, Len(q))

\* The store performs the setItem of call i: the key holds the text, the
\* promise is fulfilled.  The calls in flight settle in any order.
setItemFulfilled(i) ==
    /\ saves[i].state = "pending"
    /\ storage' = Some(toString(saves[i].rate))
    /\ saves' = [saves EXCEPT ![i].state = "fulfilled"]
    /\ UNCHANGED <<loanAmount, months, interestRatePerMonth, selectedMonth,
                   effectPending, loadPc, storedRate,
                   showInterestRateModal, modalInterestRate, alerts>>

\* The store fails the setItem of call i: the key is left as it was, the
\* promise is rejected.
setItemRejected(i) ==
    /\ saves[i].state = "pending"
    /\ saves' = [saves EXCEPT ![i].state = "rejected"]
    /\ UNCHANGED <<loanAmount, months, interestRatePerMonth, selectedMonth,
                   effectPending, storage, loadPc, storedRate,
                   showInterestRateModal, modalInterestRate, alerts>>

\* (mutant) the catch of saveCustomInterestRate closes the modal
saveSetItemRejectedCloses(i) ==
    /\ saves[i].state = "rejected"
    /\ saves' = RemoveAt(saves, i)
    /\ showInterestRateModal' = FALSE
    /\ alerts' = alerts \cup {"Could not save interest rate."}
    /\ UNCHANGED <<loanAmount, months, interestRatePerMonth, selectedMonth,
                   effectPending, storage, loadPc, storedRate, modalInterestRate>>

\* Call i of saveCustomInterestRate after its await, setItem fulfilled.
saveSetItemResolved(i) ==
    /\ saves[i].state = "fulfilled"
    /\ LET rate == saves[i].rate
       IN  interestRatePerMonth' = Some(rate)
    /\ showInterestRateModal' = FALSE
    /\ saves' = RemoveAt(saves, i)
    /\ UNCHANGED <<loanAmount, months, selectedMonth, storage, loadPc, storedRate,
                   modalInterestRate, alerts>>
    /\ effectPending' = (effectPending \/ DepsChanged)

\* Call i of saveCustomInterestRate after its await, setItem rejected: the
\* catch reports it.
saveSetItemRejected(i) ==
    /\ saves[i].state = "rejected"
    /\ saves' = RemoveAt(saves, i)
    /\ alerts' = alerts \cup {"Could not save interest rate."}
    /\ UNCHANGED <<loanAmount, months, interestRatePerMonth, selectedMonth,
                   effectPending, storage, loadPc, storedRate,
                   showInterestRateModal, modalInterestRate>>

\* Cancel, or the back button while the modal is shown.
handleCloseInterestRateModal ==
    /\ Idle
    /\ showInterestRateModal
    /\ modalInterestRate' = interestRatePerMonth
    /\ showInterestRateModal' = FALSE
    /\ UNCHANGED <<loanAmount, months, interestRatePerMonth, selectedMonth,
                   effectPending, storage, loadPc, storedRate, saves, alerts>>

\* The application is started again: the component is constructed anew and
\* only the store keeps its content.
relaunch ==
    /\ loadPc \in {"done", "caught"}
    /\ saves = <<>>
    /\ loanAmount' = undefined
    /\ months' = Some(DefaultMonths)
    /\ interestRatePerMonth' = Some(DefaultInterestRate)
    /\ selectedMonth' = null
    /\ effectPending' = TRUE
    /\ loadPc' = "getItem"
    /\ storedRate' = null
    /\ showInterestRateModal' = FALSE
    /\ modalInterestRate' = undefined
    /\ alerts' = {}
    /\ UNCHANGED <<storage, saves>>

Next ==
    \/ \E text \in LoanTexts : handleLoanAmountChange(text)
    \/ loanAmountOnBlur
    \/ handleMonthsDecrement
    \/ handleMonthsIncrement
    \/ \E text \in MonthsTexts : handleMonthsTextChange(text)
    \/ handleMonthsBlur
    \/ \E i \in 1..tableDataLength : handleRowClick(tableData[i].month)
    \/ selectedMonthEffect
    \/ loadGetItemResolved
    \/ loadRemoveItemResolved

Spec == Init /\ [][Next]_vars

----------------------------------------------------------------------------
(* The schedule generator as a function of its inputs: the form holds a    *)
(* valid principal, rate and term (typed in, or loaded from the store),    *)
(* and the term is stepped through every value.                            *)

ScheduleInputs ==
    { <<100000, 1000>>,        \* 1000 at 10%
      <<100, 10>>,             \* 1 at 0.1%
      <<100000000, 10000>>,    \* 1000000 at 100%
      <<100050, 1250>> }       \* 1000.50 at 12.5%

InitSchedule ==
    /\ \E in \in ScheduleInputs :
          /\ loanAmount = Some(in[1])
          /\ interestRatePerMonth = Some(in[2])
    /\ months \in {Some(m) : m \in MinMonths..MaxMonths}
    /\ selectedMonth = months
    /\ effectPending = FALSE
    /\ storage = null
    /\ loadPc = "done"
    /\ storedRate = null
    /\ showInterestRateModal = FALSE
    /\ modalInterestRate = undefined
    /\ saves = <<>>
    /\ alerts = {}

NextSchedule ==
    \/ handleMonthsDecrement
    \/ handleMonthsIncrement
    \/ selectedMonthEffect

SpecSchedule == InitSchedule /\ [][NextSchedule]_vars

----------------------------------------------------------------------------
(* The stored preference: the startup load, the rate modal and its saves,  *)
(* with the store's calls resolving or rejecting, over sessions started    *)
(* one after another.  The loan amount and the term stay as constructed.   *)

InitStore ==
    /\ loanAmount = undefined
    /\ months = Some(DefaultMonths)
    /\ interestRatePerMonth = Some(DefaultInterestRate)
    /\ selectedMonth = null
    /\ effectPending = TRUE
    /\ storage \in StoredPreferences
    /\ loadPc = "getItem"
    /\ storedRate = null
    /\ showInterestRateModal = FALSE
    /\ modalInterestRate = undefined
    /\ saves = <<>>
    /\ alerts = {}

NextStore ==
    \/ selectedMonthEffect
    \/ loadGetItemResolved
    \/ loadGetItemRejected
    \/ loadRemoveItemResolved
    \/ loadRemoveItemRejected
    \/ openInterestRateModal
    \/ \E text \in ModalTexts : handleModalInterestRateTextChange(text)
    \/ handleSaveInterestRate
    \/ \E i \in 1..Len(saves) : setItemFulfilled(i)
    \/ \E i \in 1..Len(saves) : setItemRejected(i)
    \/ \E i \in 1..Len(saves) : saveSetItemResolved(i)
    \/ \E i \in 1..Len(saves) : saveSetItemRejected(i)
    \/ handleCloseInterestRateModal
    \/ relaunch

SpecStore == InitStore /\ [][NextStore]_vars

ValidInput ==
    /\ loanAmount # undefined /\ loanAmountValid(loanAmount)
    /\ interestRatePerMonth # undefined /\ interestRateValid(interestRatePerMonth)
    /\ months # undefined /\ monthsValid(months)

\* The least whole number of years that covers the term, in months.
FullYears(term) ==
    CHOOSE h \in {MonthsPerYear * y : y \in 1..30} : h >= term /\ h - MonthsPerYear < term

\* The whole table against its expected length.
TableShapeOk(table, length) ==
    /\ DOMAIN table = 1..length
    /\ \A i \in 1..length : table[i].month = i

\* C1: for every valid input the schedule has min(ceil(term/12)*12, 360) rows
\* and the months of its rows are 1, 2, ..., length in order; terms 1 and 12
\* give 12 rows, 13 gives 24, 349 and 360 give 360.
C1_ScheduleLength ==
    ValidInput =>
        /\ TableShapeOk(tableData, Min(FullYears(months[1]), 360))
        /\ tableDataLength = Min(FullYears(months[1]), 360)
        /\ months[1] \in {1, 12} => tableDataLength = 12
        /\ months[1] = 13 => tableDataLength = 24
        /\ months[1] \in {349, 360} => tableDataLength = 360

C1_Witness ==
    /\ ValidInput
    /\ months = Some(13)
    /\ Len(tableData) = 24
    /\ tableData[24].month = 24

\* principal * rate, in millionths * 10000, from the principal in millionths
InterestOfOneMonthShifted == MagMulSmall(DecOfHundredths(loanAmount[1]).mag,
                                         interestRatePerMonth[1])

\* One row against the row before it, the first row's interest and the principal.
RowAmountsOk(row, before, first, principal) ==
    /\ row.interestAmount = DecAdd(before.interestAmount, first)
    /\ ~row.totalAmount.neg
    /\ MagSub(row.totalAmount.mag, row.interestAmount.mag) = principal.mag
    /\ row.monthlyPayment = [num |-> row.totalAmount, den |-> row.month]

\* The row before the first: nothing accrued yet.
RowZero == [interestAmount |-> DecZero]

\* C2: every row has interestAmount = principal * (rate / 100) * month on the
\* original principal (the same amount is added every month), totalAmount =
\* principal + interestAmount and monthlyPayment = totalAmount / month;
\* principal 1000 at 10% gives 100 and 1100 at month 1, 1200 and 2200 at 12.
C2_RowAmounts ==
    ValidInput =>
        /\ ~tableData[1].interestAmount.neg
        /\ MagShift(tableData[1].interestAmount.mag) = InterestOfOneMonthShifted
        /\ \A i \in 1..tableDataLength :
              RowAmountsOk(tableData[i],
                           IF i > 1 THEN tableData[i - 1] ELSE RowZero,
                           tableData[1].interestAmount,
                           DecOfHundredths(loanAmount[1]))
        /\ (loanAmount = Some(100000) /\ interestRatePerMonth = Some(1000)) =>
              /\ tableData[1].interestAmount = Dec(FALSE, <<0, 0, 1, 0, 0>>)
              /\ tableData[1].totalAmount = Dec(FALSE, <<0, 0, 11, 0, 0>>)
              /\ tableData[12].interestAmount = Dec(FALSE, <<0, 0, 12, 0, 0>>)
              /\ tableData[12].totalAmount = Dec(FALSE, <<0, 0, 22, 0, 0>>)

C2_Witness ==
    /\ loanAmount = Some(100000)
    /\ interestRatePerMonth = Some(1000)
    /\ months = Some(12)
    /\ tableData[12].interestAmount = Dec(FALSE, <<0, 0, 12, 0, 0>>)
    /\ tableData[12].monthlyPayment.den = 12

----------------------------------------------------------------------------
(* The form: claims about validation, editing and the selected month.      *)

AllPresent ==
    loanAmount # undefined /\ months # undefined /\ interestRatePerMonth # undefined

\* C3: validation gates the calculation: the schedule is non-empty only if
\* loanAmount is in [1, 1000000], months in [1, 360] and
\* interestRatePerMonth in [0.1, 100].
C3_ValidationGates ==
    tableDataLength > 0 =>
        /\ AllPresent
        /\ loanAmountValid(loanAmount)
        /\ monthsValid(months)
        /\ interestRateValid(interestRatePerMonth)

\* The texts of the model that do not parse.
UnparseableLoanTexts == {text \in LoanTexts : isNaN(parseFloat(text))}
UnparseableMonthsTexts == {text \in MonthsTexts : isNaN(parseInt(text))}

\* An edit of the loan amount or of months with a text that does not parse.
UnparseableEdit ==
    /\ selectedMonth' = selectedMonth
    /\ \/ \E text \in UnparseableLoanTexts : handleLoanAmountChange(text)
       \/ \E text \in UnparseableMonthsTexts : handleMonthsTextChange(text)

\* C4: the schedule is empty whenever principal, rate or term is absent, and
\* an unparseable text typed into the loan-amount or months field is stored as
\* absent, so that after the edit the schedule is empty.
C4_AbsentGivesEmpty ==
    [][ /\ ~AllPresent' => (tableDataLength' = 0 /\ tableData' = <<>>
                            /\ summaryData' = null)
        /\ UnparseableEdit => (~AllPresent' /\ tableData' = <<>>) ]_vars

\* The loan amount has just been cleared while months and the rate stayed:
\* the effect is scheduled although months and the (never changed) rate are
\* what the selection was derived from.
C4_Witness ==
    /\ loanAmount = undefined
    /\ effectPending
    /\ months # undefined /\ months[1] >= 1
    /\ selectedMonth = months
    /\ interestRatePerMonth = Some(DefaultInterestRate)
    /\ loadPc = "done"
    /\ tableData = <<>>

\* C5: each field is rejected exactly when it lies outside its range:
\* loanAmount if <= 0 or > 1000000, months if < 1 or > 360,
\* interestRatePerMonth if < 0.1 or > 100, and accepted otherwise.
C5_RejectedExactlyOutsideRange ==
    /\ loanAmount # undefined =>
          (~loanAmountValid(loanAmount)
              <=> (loanAmount[1] <= 0 \/ loanAmount[1] > 100000000))
    /\ months # undefined =>
          (~monthsValid(months) <=> (months[1] < 1 \/ months[1] > 360))
    /\ interestRatePerMonth # undefined =>
          (~interestRateValid(interestRatePerMonth)
              <=> (interestRatePerMonth[1] < 10 \/ interestRatePerMonth[1] > 10000))

\* What the months field holds after a blur, by the rule of the claim.
MonthsAfterBlur ==
    IF months = undefined THEN 1
    ELSE IF months[1] < 1 THEN 1
    ELSE IF months[1] > 360 THEN 360
    ELSE months[1]

\* C6: on blur of the months field an absent value or a value below 1 becomes
\* 1, a value above 360 becomes 360 and a value in 1..360 stays; the blur never
\* changes loanAmount or interestRatePerMonth, and the blur of the loan amount
\* repairs nothing.
C6_MonthsBlur ==
    [][ /\ handleMonthsBlur =>
              /\ months' = Some(MonthsAfterBlur)
              /\ loanAmount' = loanAmount
              /\ interestRatePerMonth' = interestRatePerMonth
        /\ loanAmountOnBlur =>
              UNCHANGED <<loanAmount, months, interestRatePerMonth>> ]_vars

\* months has just been snapped from 361 down to 360 (the selection, not yet
\* re-derived, still holds 361) while an out-of-range loan amount stayed.
C6_Witness ==
    /\ months = Some(360)
    /\ selectedMonth = Some(361)
    /\ effectPending
    /\ loanAmount = Some(100000001)

\* The selected month once the scheduled effect has run.
SelectedAfterEffects ==
    IF effectPending THEN selectedMonthEffectValue(months) ELSE selectedMonth

\* The step is a click on the displayed row m.
RowClicked(m) ==
    /\ m \in 1..tableDataLength
    /\ handleRowClick(m)
    /\ tableData[m].month = m

\* The summary is the given row, whose month is m.
SummaryIsRow(summary, row, m) ==
    /\ summary # null
    /\ summary[1].month = m
    /\ summary[1] = row

\* The summary of a selection that equals months and lies in the table.
SummaryOfSelectedTerm ==
    (selectedMonth # null /\ selectedMonth = months
        /\ selectedMonth[1] \in 1..tableDataLength)
    => SummaryIsRow(summaryData, tableData[selectedMonth[1]], selectedMonth[1])

\* C7: selecting a displayed row by its month m makes the selected month m and
\* overwrites months with m; once the effects have run the selected month is
\* still m, and the summary is the row with month m of the recomputed schedule.
C7_RowClick ==
    /\ []SummaryOfSelectedTerm
    /\ [][ (Idle /\ selectedMonth' # null /\ RowClicked(selectedMonth'[1])) =>
              /\ months' = selectedMonth'
              /\ SelectedAfterEffects' = selectedMonth'
              /\ selectedMonth'[1] \in 1..tableDataLength' ]_vars

\* Row 7 of a 12-row table is selected, months is 7 and the summary shows it.
C7_Witness ==
    /\ selectedMonth = Some(7)
    /\ months = Some(7)
    /\ effectPending
    /\ tableDataLength = 12
    /\ summaryData # null
    /\ summaryData[1].month = 7

\* Once the effect has run the selection is months, or none without months.
SelectionTracksMonths ==
    Idle => selectedMonth = (IF months # undefined THEN months ELSE null)

\* C8 as stated: the settled selection is the current months value (none when
\* months is undefined), and the pointer is re-derived only on a valid edit of
\* months: whenever the effect moves it, months passes validation.
C8_RederivedOnlyOnValidEdit ==
    /\ []SelectionTracksMonths
    /\ [][ (selectedMonthEffect /\ selectedMonth' # selectedMonth)
              => monthsValid(months') ]_vars

\* C8 (amended): after any sequence of edits, once the effect has run, the
\* selection is the current months value when months is defined, whether or
\* not that value passes validation, and none when months is undefined.
C8_SelectionTracksMonths == SelectionTracksMonths

\* The effect has selected a term that fails validation.
C8_Witness ==
    /\ Idle
    /\ months = Some(361)
    /\ selectedMonth = Some(361)

\* C9 as stated: whenever the schedule is non-empty and the selection has
\* settled, the summary row exists, its month is months and it is the last
\* row of the table.
C9_SummaryIsLastRow ==
    (Idle /\ tableDataLength > 0) =>
        SummaryIsRow(summaryData, tableData[tableDataLength], months[1])

\* The summary is the term's row, and the last row exactly when isLast.
SummaryIsTermRow(summary, termRow, lastRow, isLast) ==
    /\ SummaryIsRow(summary, termRow, months[1])
    /\ (summary[1] = lastRow) <=> isLast

\* C9 (amended): whenever the schedule is non-empty and the selection has
\* settled, the summary is the row whose month is months when months is at most
\* the length of the table, and that row is the last row exactly when months
\* equals that length; when months exceeds the length there is no summary.
C9_SummaryIsTermRow ==
    (Idle /\ tableDataLength > 0) =>
        IF months[1] <= tableDataLength
        THEN SummaryIsTermRow(summaryData, tableData[months[1]],
                              tableData[tableDataLength],
                              months[1] = tableDataLength)
        ELSE summaryData = null

\* A settled 13-month term: 24 rows, and the summary is row 13, not row 24.
C9_Witness ==
    /\ Idle
    /\ months = Some(13)
    /\ tableDataLength = 24
    /\ summaryData # null
    /\ summaryData[1].month = 13

\* C10: when months becomes undefined the selection becomes none; in every
\* state with no selection the summary is the first row (month 1) when the
\* table is non-empty and absent when it is empty.
C10_NoSelectionFallsBack ==
    /\ (Idle /\ months = undefined) => selectedMonth = null
    /\ selectedMonth = null =>
          IF tableDataLength > 0
          THEN SummaryIsRow(summaryData, tableData[1], 1)
          ELSE summaryData = null

\* No selection yet (months was empty and has just been typed) over a
\* non-empty table: the summary is row 1.
C10_Witness ==
    /\ selectedMonth = null
    /\ months = Some(13)
    /\ tableDataLength = 24
    /\ summaryData # null
    /\ summaryData[1].month = 1

----------------------------------------------------------------------------
(* The stored preference.                                                  *)

\* The stored text parses to a number in [0.1, 100].
Acceptable(text) ==
    LET parsed == parseFloat(text)
    IN  ~isNaN(parsed) /\ parsed.val >= MinInterestRate
                       /\ parsed.val <= MaxInterestRate

\* getItem resolves in this step.
GetItemResolves == loadPc = "getItem" /\ loadPc' \in {"removeItem", "done"}

\* removeItem resolves in this step.
RemoveItemResolves == loadPc = "removeItem" /\ loadPc' = "done"

\* A new session starts in this step.
SessionStarts == loadPc # "getItem" /\ loadPc' = "getItem"

\* What the startup load does with the value it finds.
LoadStep ==
    /\ (GetItemResolves /\ storage = null) =>
          /\ loadPc' = "done"
          /\ interestRatePerMonth' = Some(DefaultInterestRate)
          /\ storage' = null
    /\ (GetItemResolves /\ storage # null /\ Acceptable(storage[1])) =>
          /\ loadPc' = "done"
          /\ interestRatePerMonth' = Some(parseFloat(storage[1]).val)
          /\ storage' = storage
    /\ (GetItemResolves /\ storage # null /\ ~Acceptable(storage[1])) =>
          /\ loadPc' = "removeItem"
          /\ interestRatePerMonth' = interestRatePerMonth
    /\ RemoveItemResolves =>
          /\ loadPc' = "done"
          /\ storage' = null
          /\ interestRatePerMonth' = Some(DefaultInterestRate)
    /\ SessionStarts =>
          /\ loadPc \in {"done", "caught"}
          /\ interestRatePerMonth' = Some(DefaultInterestRate)
          /\ storage' = storage

\* C11: the startup load reads the store once in a session; a stored text
\* that parses to a number in [0.1, 100] becomes the form's rate and stays
\* stored; any other stored text is not put into the form, its key is removed
\* and the form's rate is then the default 10; when nothing is stored the
\* rate is 10 and the store stays empty.
C11_StartupLoad == [][LoadStep]_vars

\* The load has found 200 in the store and discarded it (the form holds the
\* default), and its removeItem is on the way.
C11_Witness ==
    /\ loadPc = "removeItem"
    /\ storedRate = Some(<<"2", "0", "0">>)
    /\ storage = storedRate
    /\ interestRatePerMonth = Some(DefaultInterestRate)

\* Pressing Save starts a save in this step.
SaveStarts == Len(saves') > Len(saves)

\* The store performs the write of save i in this step.
WriteDone(i) ==
    /\ i \in 1..Len(saves)
    /\ Len(saves') = Len(saves)
    /\ saves[i].state = "pending"
    /\ saves'[i].state = "fulfilled"

\* The rate in [0.1, 100].
RateInRange(rate) == rate >= MinInterestRate /\ rate <= MaxInterestRate

\* Saving r and loading what was stored gives r back.
RoundTrip(rate) ==
    /\ Acceptable(toString(rate))
    /\ parseFloat(toString(rate)).val = rate

OnlyInRangeRatesAreSaved ==
    \* Save with a rate outside the range starts no write ...
    /\ SaveStarts => RateInRange(saves'[Len(saves')].rate)
    \* ... so every text written to the store is a rate in the range ...
    /\ (storage' # storage /\ storage' # null) => Acceptable(storage'[1])
    \* ... and the form's rate never becomes a rate outside it.
    /\ interestRatePerMonth' # interestRatePerMonth =>
          (interestRatePerMonth' # undefined /\ RateInRange(interestRatePerMonth'[1]))
    \* The write of an in-range rate stores the text that loads as that rate.
    /\ \A i \in 1..MaxPendingSaves :
          (WriteDone(i) /\ RateInRange(saves[i].rate)) =>
              /\ storage' = Some(toString(saves[i].rate))
              /\ RoundTrip(saves[i].rate)

\* C12: pressing Save with a rate below 0.1 or above 100 starts no write to
\* the store and leaves the form's rate unchanged, so every stored
\* preference written by the program is in [0.1, 100]; a saved in-range rate
\* is stored as the text that loads back as exactly that rate.
C12_OutOfRangeSaveRefused == [][OnlyInRangeRatesAreSaved]_vars

\* The catch of loadCustomInterestRate runs in this step.
ReadFails == loadPc \in {"getItem", "removeItem"} /\ loadPc' = "caught"

\* The calls of saveCustomInterestRate whose setItem is in the given state.
SavesIn(q, state) == Cardinality({i \in 1..Len(q) : q[i].state = state})

\* The store rejects a setItem in this step.
WriteFails == SavesIn(saves', "rejected") > SavesIn(saves, "rejected")

\* The catch of saveCustomInterestRate runs in this step.
SaveFails == SavesIn(saves', "rejected") < SavesIn(saves, "rejected")

\* The form as the user sees it.
formState == <<loanAmount, months, interestRatePerMonth, selectedMonth, effectPending>>

\* The continuation of a fulfilled setItem runs in this step.
SaveSucceeds == SavesIn(saves', "fulfilled") < SavesIn(saves, "fulfilled")

FailureStep ==
    /\ ReadFails =>
          /\ UNCHANGED formState
          /\ UNCHANGED <<storage, saves, showInterestRateModal, modalInterestRate>>
          /\ "Could not load saved interest rate." \in alerts'
    /\ WriteFails =>
          /\ UNCHANGED formState
          /\ UNCHANGED <<storage, showInterestRateModal, modalInterestRate, alerts>>
    /\ SaveFails =>
          /\ UNCHANGED formState
          /\ UNCHANGED <<storage, showInterestRateModal, modalInterestRate>>
          /\ "Could not save interest rate." \in alerts'
          \* the failed call is over and no call is started in its place
          /\ Len(saves') = Len(saves) - 1
          /\ SavesIn(saves', "pending") = SavesIn(saves, "pending")
          /\ SavesIn(saves', "fulfilled") = SavesIn(saves, "fulfilled")
    \* The rate a session starts with, the default 10, is changed only by a
    \* load or a save that succeeds.
    /\ interestRatePerMonth' # interestRatePerMonth =>
          (GetItemResolves \/ RemoveItemResolves \/ SaveSucceeds \/ SessionStarts)
    /\ SessionStarts => interestRatePerMonth' = Some(DefaultInterestRate)

\* C13: a failure of the store changes no form state.  When the startup load
\* fails (getItem or removeItem rejects) the form's rate is left as it is, the
\* default 10 unless a save has succeeded in the session, and the failure is
\* reported.  When a write fails the form's rate, the stored preference and
\* the modal (open unless the user has closed it) are left as they are, the
\* failure is reported and no other write is started.
C13_StoreFailure == [][FailureStep]_vars

\* 12.5 was loaded, saving 200 has failed: the form and the store still hold
\* 12.5, the modal is still open on 200, and the failure has been reported.
C13_Witness ==
    /\ "Could not save interest rate." \in alerts
    /\ saves = <<>>
    /\ showInterestRateModal
    /\ modalInterestRate = Some(20000)
    /\ storage = Some(<<"1", "2", ".", "5">>)
    /\ interestRatePerMonth = Some(1250)

\* No call to the store is in flight and none has failed in the session.
Settled ==
    /\ loadPc = "done"
    /\ saves = <<>>
    /\ "Could not save interest rate." \notin alerts

\* The form's rate is the stored one, the default when nothing is stored.
FormAgreesWithStore ==
    IF storage = null
    THEN interestRatePerMonth = Some(DefaultInterestRate)
    ELSE interestRatePerMonth = Some(parseFloat(storage[1]).val)

\* The load's removeItem removes the text the load has read and rejected,
\* not one written since; and the rate the load puts into the form is the one
\* now stored.
LoadSparesSavedRate ==
    /\ (RemoveItemResolves /\ storage' = null) => storage = storedRate
    /\ (GetItemResolves /\ interestRatePerMonth' # interestRatePerMonth) =>
          (storage' # null /\ interestRatePerMonth' = Some(parseFloat(storage'[1]).val))

\* C14: however the steps of the startup load and of a save interleave, once
\* no call to the store is in flight the form's rate equals the stored one,
\* and the load neither removes from the store a rate saved after it read
\* the store nor puts an older stored value over it in the form.
C14_LoadAndSaveAgree ==
    /\ [](Settled => FormAgreesWithStore)
    /\ [][LoadSparesSavedRate]_vars

====
